---- MODULE Spec2Model ----
(***************************************************************************)
(* The trading-account ledger of crewai-trading_account_simulator.         *)
(*                                                                         *)
(* The repository holds three implementations of the Account class:        *)
(*   "accounts"          agents/3_crew/.../output/accounts.py              *)
(*   "accounts_working"  agents/crew/.../verified_outputs/                 *)
(*                       accounts_working.py                               *)
(*   "embedded"          the accounts module written out in                *)
(*                       agents/crew/.../output/test_accounts.py (lines    *)
(*                       75-249), which that file's tests exercise         *)
(* The variable impl says which of them the account is an instance of.     *)
(*                                                                         *)
(* Money is a Python float in the source.  Amounts are modelled as whole   *)
(* numbers of quarter dollars: every price of the source is a multiple of  *)
(* 0.25, and on multiples of 0.25 below 2^51 the float +, - and * of the   *)
(* source are exact, so integer arithmetic is what the code computes.      *)
(*                                                                         *)
(* A symbol is a Python str, modelled as the tuple of its character codes, *)
(* so that str.upper() is computed and not assumed.                        *)
(*                                                                         *)
(* The timestamp field of a transaction record (datetime.now()) is left    *)
(* out: no operation reads it.                                             *)
(***************************************************************************)
EXTENDS Integers, Sequences, FiniteSets, TLC

VARIABLES impl, created, balance, holdings, transactions,
          initial_deposit_total, mock, last, pre, txcap, returned, callers,
          other

vars == <<impl, created, balance, holdings, transactions,
          initial_deposit_total, mock, last, pre, txcap, returned, callers,
          other>>

account == <<balance, holdings, transactions, initial_deposit_total>>

-----------------------------------------------------------------------------
(* Bounds of the model *)

\* the longest transaction history explored
MaxTx == 3
\* the largest quantity offered to buy_shares and sell_shares
MaxQty == 2
\* the most writes a caller makes through the lists and dicts it is returned
MaxWrites == 2

\* dollars and cents as a number of quarter dollars
Money(dollars, cents) == 4 * dollars + cents \div 25

\* amounts offered to deposit and withdraw
Amounts == {Money(-100, 0), 0, Money(750, 0)}
\* initial_deposit arguments offered to the constructors that take one
InitialDeposits == {Money(-100, 0), 0, Money(1000, 0)}
Quantities == {-1, 0, 1, MaxQty}

\* 'AAPL', 'aapl', 'TSLA', 'GOOGL', 'XYZ', 'CASH' as character codes
AAPL == <<65, 65, 80, 76>>
aapl == <<97, 97, 112, 108>>
TSLA == <<84, 83, 76, 65>>
GOOGL == <<71, 79, 79, 71, 76>>
XYZ == <<88, 89, 90>>
CASH == <<67, 65, 83, 72>>

\* symbols offered to buy_shares and sell_shares
Symbols == {AAPL, aapl, TSLA, XYZ}

Impls == {"accounts", "accounts_working", "embedded"}

-----------------------------------------------------------------------------
(* Python values *)

\* None, and a value that is not None (an optional field of a record)
None == <<>>
Some(v) == <<v>>

\* str.upper() on ASCII letters
upper(s) == [i \in 1 .. Len(s) |-> IF s[i] \in 97 .. 122 THEN s[i] - 32 ELSE s[i]]

\* dict: {} , d.get(k, default), d[k] = v, del d[k]
EmptyDict == [k \in {} |-> 0]
Get(d, k, default) == IF k \in DOMAIN d THEN d[k] ELSE default
Put(d, k, v) == [x \in DOMAIN d \cup {k} |-> IF x = k THEN v ELSE d[x]]
Del(d, k) == [x \in DOMAIN d \ {k} |-> d[x]]

-----------------------------------------------------------------------------
(* The price oracle.  A lookup yields [raises, price]: raises is TRUE when *)
(* get_share_price raises ValueError, and price is then meaningless.       *)

Priced(p) == [raises |-> FALSE, price |-> p]
Unpriced == [raises |-> TRUE, price |-> 0]

\* accounts.py: the symbols get_share_price names; any other gets the default
accounts_known == {AAPL, TSLA, GOOGL}

\* the branch of GOOGL is missing: it gets the default price
get_share_price_googl_default(symbol) ==
    IF symbol = AAPL THEN Priced(Money(170, 50))
    ELSE IF symbol = TSLA THEN Priced(Money(750, 0))
    ELSE Priced(Money(100, 0))

accounts_get_share_price(symbol) ==
    IF symbol = AAPL THEN Priced(Money(170, 50))
    ELSE IF symbol = TSLA THEN Priced(Money(750, 0))
    ELSE IF symbol = GOOGL THEN Priced(Money(2500, 25))
    ELSE Priced(Money(100, 0))

\* accounts_working.py: STOCK_PRICES
STOCK_PRICES == [s \in {AAPL, TSLA, GOOGL} |->
                    IF s = AAPL THEN Money(150, 0)
                    ELSE IF s = TSLA THEN Money(850, 0)
                    ELSE Money(2500, 0)]

working_get_share_price(symbol) ==
    LET sym == upper(symbol)
    IN  IF sym \notin DOMAIN STOCK_PRICES THEN Unpriced
        ELSE Priced(STOCK_PRICES[sym])

\* the embedded module: PRICES.get(symbol.upper())
PRICES == [s \in {AAPL, TSLA, GOOGL} |->
              IF s = AAPL THEN Money(150, 0)
              ELSE IF s = TSLA THEN Money(850, 0)
              ELSE Money(2500, 0)]

embedded_get_share_price(symbol) ==
    LET sym == upper(symbol)
    IN  IF sym \notin DOMAIN PRICES THEN Unpriced ELSE Priced(PRICES[sym])

\* get_share_price as the Account methods see it: the module's own function,
\* or the mock a test has patched in (side_effect ValueError)
get_share_price(symbol) ==
    IF mock = "side_effect" THEN Unpriced
    ELSE IF impl = "accounts" THEN accounts_get_share_price(symbol)
    ELSE IF impl = "accounts_working" THEN working_get_share_price(symbol)
    ELSE embedded_get_share_price(symbol)

-----------------------------------------------------------------------------
(* What the last call was and how it ended (err is "ok" or the error kind  *)
(* of the raised exception, exc its class), and the account before it.     *)
(* txcap is the length at which the exploration of a history stops.        *)
(* returned is the list or dict a caller holds from the last call of       *)
(* get_transaction_history or get_holdings, if it holds one.               *)
(* callers is where each thread that calls the account is in the call it   *)
(* makes.  The operations of the next sections run from call to return in *)
(* one step, every thread being idle; the steps of a call that the calls  *)
(* of other threads interleave with are written out further down.         *)

\* the threads that call the account
MaxCallers == 2
Callers == 1 .. MaxCallers

\* a thread that is in no call
Idle == [at |-> "idle", op |-> "none", amount |-> 0, symbol |-> None, quantity |-> 0,
         price |-> 0, delta |-> 0, loaded |-> 0]
NoCalls == [t \in Callers |-> Idle]

(* other is a second instance of the class, when the caller has made one:  *)
(* its fields, and which of its attributes are the very object the         *)
(* instance called holds.  The variables balance, holdings, transactions   *)
(* and initial_deposit_total are the fields of the instance being called.  *)
NoOther == [made |-> FALSE, account |-> <<>>, shared |-> {}]

Snapshot == [balance |-> balance, holdings |-> holdings,
             transactions |-> transactions,
             initial_deposit_total |-> initial_deposit_total]

Call(op, amount, symbol, quantity) ==
    [op |-> op, amount |-> amount, symbol |-> symbol, quantity |-> quantity]

Outcome(call, err, exc) ==
    [op |-> call.op, amount |-> call.amount, symbol |-> call.symbol,
     quantity |-> call.quantity, err |-> err, exc |-> exc]

\* the call raises: nothing of the account is assigned
Raise(call, err, exc) ==
    /\ last' = Outcome(call, err, exc)
    /\ pre' = Snapshot
    /\ UNCHANGED <<callers, other, impl, created, mock, txcap, returned, account>>

\* the call returns normally
Return(call) ==
    /\ last' = Outcome(call, "ok", "None")
    /\ pre' = Snapshot
    /\ UNCHANGED <<callers, other, impl, created, mock, txcap, returned>>

-----------------------------------------------------------------------------
(* agents/3_crew/engineering_team/output/accounts.py                        *)
(* Each definition of the module is preceded by the variants of it that a   *)
(* slip in the code would give; the properties below are checked to tell    *)
(* them apart.                                                              *)

\* the record is not appended
record_transaction_dropped(type, amount, symbol, quantity, price) ==
    transactions

\* the amount is recorded without its sign
record_transaction_unsigned(type, amount, symbol, quantity, price) ==
    Append(transactions,
           [type |-> type, symbol |-> symbol, quantity |-> quantity,
            price |-> price, amount |-> IF amount < 0 THEN -amount ELSE amount])

\* the record is put at the head of the history
record_transaction_prepended(type, amount, symbol, quantity, price) ==
    <<[type |-> type, symbol |-> symbol, quantity |-> quantity,
       price |-> price, amount |-> amount]>> \o transactions

\* Account._record_transaction: the history with the record appended
accounts_record_transaction(type, amount, symbol, quantity, price) ==
    Append(transactions,
           [type |-> type, symbol |-> symbol, quantity |-> quantity,
            price |-> price, amount |-> amount])

\* only a negative amount is refused
deposit_invalid_negative_only(amount) == amount < 0

\* Account.deposit: if amount <= 0
accounts_deposit_invalid(amount) == amount <= 0

accounts_deposit(amount) ==
    LET call == Call("deposit", amount, None, 0)
    IN  /\ created /\ impl = "accounts"
        /\ IF accounts_deposit_invalid(amount)
           THEN Raise(call, "InvalidAmount", "ValueError")
           ELSE /\ Len(transactions) < txcap
                /\ balance' = balance + amount
                /\ initial_deposit_total' = initial_deposit_total + amount
                /\ transactions' =
                       accounts_record_transaction("DEPOSIT", amount, None, None, None)
                /\ UNCHANGED holdings
                /\ Return(call)

\* Account.withdraw: if amount <= 0
accounts_withdraw_invalid(amount) == amount <= 0

\* the funds check is missing
withdraw_insufficient_unchecked(amount) == FALSE

\* the whole balance cannot be withdrawn
withdraw_insufficient_strict(amount) == balance <= amount

\* Account.withdraw: if self.balance < amount
accounts_withdraw_insufficient(amount) == balance < amount

\* the withdrawal is taken off the deposits as well
withdraw_lowers_deposit_total(amount) ==
    LET call == Call("withdraw", amount, None, 0)
    IN  /\ created /\ impl = "accounts"
        /\ IF accounts_withdraw_invalid(amount)
           THEN Raise(call, "InvalidAmount", "ValueError")
           ELSE IF accounts_withdraw_insufficient(amount)
           THEN Raise(call, "InsufficientFunds", "InsufficientFundsError")
           ELSE /\ Len(transactions) < txcap
                /\ balance' = balance - amount
                /\ initial_deposit_total' = initial_deposit_total - amount
                /\ transactions' =
                       accounts_record_transaction("WITHDRAW", -amount, None, None, None)
                /\ UNCHANGED holdings
                /\ Return(call)

accounts_withdraw(amount) ==
    LET call == Call("withdraw", amount, None, 0)
    IN  /\ created /\ impl = "accounts"
        /\ IF accounts_withdraw_invalid(amount)
           THEN Raise(call, "InvalidAmount", "ValueError")
           ELSE IF accounts_withdraw_insufficient(amount)
           THEN Raise(call, "InsufficientFunds", "InsufficientFundsError")
           ELSE /\ Len(transactions) < txcap
                /\ balance' = balance - amount
                /\ transactions' =
                       accounts_record_transaction("WITHDRAW", -amount, None, None, None)
                /\ UNCHANGED <<holdings, initial_deposit_total>>
                /\ Return(call)

\* a purchase that takes the whole balance is refused
buy_insufficient_strict(cost) == balance <= cost

\* Account.buy_shares: if self.balance < cost
accounts_buy_insufficient(cost) == balance < cost

\* the bought quantity replaces the held quantity
buy_holdings_overwritten(symbol, quantity) == Put(holdings, symbol, quantity)

\* Account.buy_shares: self.holdings[symbol] = self.holdings.get(symbol, 0) + quantity
accounts_buy_holdings(symbol, quantity) ==
    Put(holdings, symbol, Get(holdings, symbol, 0) + quantity)

\* only a negative quantity is refused
quantity_invalid_negative_only(quantity) == quantity < 0

\* Account.buy_shares, Account.sell_shares: if quantity <= 0
accounts_quantity_invalid(quantity) == quantity <= 0

accounts_buy_shares(symbol, quantity) ==
    LET call == Call("buy", 0, symbol, quantity)
        looked == get_share_price(symbol)
        price == looked.price
        cost == price * quantity
    IN  /\ created /\ impl = "accounts"
        /\ IF accounts_quantity_invalid(quantity)
           THEN Raise(call, "InvalidQuantity", "ValueError")
           ELSE IF looked.raises
           THEN Raise(call, "UnknownSymbol", "ValueError")
           ELSE IF accounts_buy_insufficient(cost)
           THEN Raise(call, "InsufficientFunds", "InsufficientFundsError")
           ELSE /\ Len(transactions) < txcap
                /\ balance' = balance - cost
                /\ holdings' = accounts_buy_holdings(symbol, quantity)
                /\ transactions' =
                       accounts_record_transaction("BUY", -cost, Some(symbol),
                                                   Some(quantity), Some(price))
                /\ UNCHANGED initial_deposit_total
                /\ Return(call)

\* a sale of all the shares held is refused
sell_insufficient_strict(symbol, quantity) == Get(holdings, symbol, 0) <= quantity

\* Account.sell_shares: current_holding = self.holdings.get(symbol, 0);
\* if current_holding < quantity
accounts_sell_insufficient(symbol, quantity) == Get(holdings, symbol, 0) < quantity

\* the entry of a symbol sold out is kept, at zero
sell_holdings_zero_kept(symbol, quantity) ==
    Put(holdings, symbol, holdings[symbol] - quantity)

\* the entry is removed although shares of the symbol are left
sell_holdings_all_removed(symbol, quantity) == Del(holdings, symbol)

\* Account.sell_shares: self.holdings[symbol] -= quantity, and the cleanup
accounts_sell_holdings(symbol, quantity) ==
    LET left == holdings[symbol] - quantity
    IN  IF left = 0 THEN Del(holdings, symbol) ELSE Put(holdings, symbol, left)

\* the proceeds are credited before the shares are checked
sell_shares_credit_first(symbol, quantity) ==
    LET call == Call("sell", 0, symbol, quantity)
        current_holding == Get(holdings, symbol, 0)
        looked == get_share_price(symbol)
        price == looked.price
        proceeds == price * quantity
    IN  /\ created /\ impl = "accounts"
        /\ IF quantity <= 0
           THEN Raise(call, "InvalidQuantity", "ValueError")
           ELSE IF looked.raises
           THEN Raise(call, "UnknownSymbol", "ValueError")
           ELSE IF current_holding < quantity
           THEN /\ balance' = balance + proceeds
                /\ last' = Outcome(call, "InsufficientShares", "InsufficientSharesError")
                /\ pre' = Snapshot
                /\ UNCHANGED <<callers, other, impl, created, mock, txcap,
                               returned, holdings,
                               transactions, initial_deposit_total>>
           ELSE /\ Len(transactions) < txcap
                /\ balance' = balance + proceeds
                /\ holdings' = accounts_sell_holdings(symbol, quantity)
                /\ transactions' =
                       accounts_record_transaction("SELL", proceeds, Some(symbol),
                                                   Some(quantity), Some(price))
                /\ UNCHANGED initial_deposit_total
                /\ Return(call)

accounts_sell_shares(symbol, quantity) ==
    LET call == Call("sell", 0, symbol, quantity)
        looked == get_share_price(symbol)
        price == looked.price
        proceeds == price * quantity
    IN  /\ created /\ impl = "accounts"
        /\ IF accounts_quantity_invalid(quantity)
           THEN Raise(call, "InvalidQuantity", "ValueError")
           ELSE IF accounts_sell_insufficient(symbol, quantity)
           THEN Raise(call, "InsufficientShares", "InsufficientSharesError")
           ELSE IF looked.raises
           THEN Raise(call, "UnknownSymbol", "ValueError")
           ELSE /\ Len(transactions) < txcap
                /\ balance' = balance + proceeds
                /\ holdings' = accounts_sell_holdings(symbol, quantity)
                /\ transactions' =
                       accounts_record_transaction("SELL", proceeds, Some(symbol),
                                                   Some(quantity), Some(price))
                /\ UNCHANGED initial_deposit_total
                /\ Return(call)

-----------------------------------------------------------------------------
(* agents/crew/engineering_team/output/verified_outputs/accounts_working.py *)
(* (cash_balance, transaction_history and initial_deposit are the variables *)
(* balance, transactions and initial_deposit_total)                         *)

\* deposit counted into the baseline, as accounts.py counts it
working_deposit_raises_baseline(amount) ==
    LET call == Call("deposit", amount, None, 0)
    IN  /\ created /\ impl = "accounts_working"
        /\ IF amount <= 0
           THEN Raise(call, "InvalidAmount", "TradingError")
           ELSE /\ Len(transactions) < txcap
                /\ balance' = balance + amount
                /\ initial_deposit_total' = initial_deposit_total + amount
                /\ transactions' = Append(transactions,
                       [type |-> "Deposit", symbol |-> Some(CASH),
                        quantity |-> Some(1), price_per_share |-> Some(amount),
                        cash_impact |-> amount, balance_after |-> balance + amount])
                /\ UNCHANGED holdings
                /\ Return(call)

working_deposit(amount) ==
    LET call == Call("deposit", amount, None, 0)
    IN  /\ created /\ impl = "accounts_working"
        /\ IF amount <= 0
           THEN Raise(call, "InvalidAmount", "TradingError")
           ELSE /\ Len(transactions) < txcap
                /\ balance' = balance + amount
                /\ transactions' = Append(transactions,
                       [type |-> "Deposit", symbol |-> Some(CASH),
                        quantity |-> Some(1), price_per_share |-> Some(amount),
                        cash_impact |-> amount, balance_after |-> balance + amount])
                /\ UNCHANGED <<holdings, initial_deposit_total>>
                /\ Return(call)

working_withdraw(amount) ==
    LET call == Call("withdraw", amount, None, 0)
    IN  /\ created /\ impl = "accounts_working"
        /\ IF amount <= 0
           THEN Raise(call, "InvalidAmount", "TradingError")
           ELSE IF amount > balance
           THEN Raise(call, "InsufficientFunds", "TradingError")
           ELSE /\ Len(transactions) < txcap
                /\ balance' = balance - amount
                /\ transactions' = Append(transactions,
                       [type |-> "Withdrawal", symbol |-> Some(CASH),
                        quantity |-> Some(1), price_per_share |-> Some(amount),
                        cash_impact |-> -amount, balance_after |-> balance - amount])
                /\ UNCHANGED <<holdings, initial_deposit_total>>
                /\ Return(call)

\* a symbol the table does not price is bought at a default price, as
\* accounts.py buys it
working_buy_shares_default_price(symbol0, quantity) ==
    LET call == Call("buy", 0, symbol0, quantity)
        symbol == upper(symbol0)
        looked == get_share_price(symbol)
        price == IF looked.raises THEN Money(100, 0) ELSE looked.price
        cost == price * quantity
    IN  /\ created /\ impl = "accounts_working"
        /\ IF quantity <= 0
           THEN Raise(call, "InvalidQuantity", "TradingError")
           ELSE IF cost > balance
           THEN Raise(call, "InsufficientFunds", "TradingError")
           ELSE /\ Len(transactions) < txcap
                /\ balance' = balance - cost
                /\ holdings' = Put(holdings, symbol, Get(holdings, symbol, 0) + quantity)
                /\ transactions' = Append(transactions,
                       [type |-> "Buy", symbol |-> Some(symbol),
                        quantity |-> Some(quantity), price_per_share |-> Some(price),
                        cash_impact |-> -cost, balance_after |-> balance - cost])
                /\ UNCHANGED initial_deposit_total
                /\ Return(call)

working_buy_shares(symbol0, quantity) ==
    LET call == Call("buy", 0, symbol0, quantity)
        symbol == upper(symbol0)
        looked == get_share_price(symbol)
        price == looked.price
        cost == price * quantity
    IN  /\ created /\ impl = "accounts_working"
        /\ IF quantity <= 0
           THEN Raise(call, "InvalidQuantity", "TradingError")
           ELSE IF looked.raises
           THEN Raise(call, "UnknownSymbol", "ValueError")
           ELSE IF cost > balance
           THEN Raise(call, "InsufficientFunds", "TradingError")
           ELSE /\ Len(transactions) < txcap
                /\ balance' = balance - cost
                /\ holdings' = Put(holdings, symbol, Get(holdings, symbol, 0) + quantity)
                /\ transactions' = Append(transactions,
                       [type |-> "Buy", symbol |-> Some(symbol),
                        quantity |-> Some(quantity), price_per_share |-> Some(price),
                        cash_impact |-> -cost, balance_after |-> balance - cost])
                /\ UNCHANGED initial_deposit_total
                /\ Return(call)

working_sell_shares(symbol0, quantity) ==
    LET call == Call("sell", 0, symbol0, quantity)
        symbol == upper(symbol0)
        looked == get_share_price(symbol)
        price == looked.price
        proceeds == price * quantity
        left == holdings[symbol] - quantity
    IN  /\ created /\ impl = "accounts_working"
        /\ IF quantity <= 0
           THEN Raise(call, "InvalidQuantity", "TradingError")
           ELSE IF symbol \notin DOMAIN holdings \/ holdings[symbol] < quantity
           THEN Raise(call, "InsufficientShares", "TradingError")
           ELSE IF looked.raises
           THEN Raise(call, "UnknownSymbol", "ValueError")
           ELSE /\ Len(transactions) < txcap
                /\ balance' = balance + proceeds
                /\ holdings' = IF left = 0 THEN Del(holdings, symbol)
                               ELSE Put(holdings, symbol, left)
                /\ transactions' = Append(transactions,
                       [type |-> "Sell", symbol |-> Some(symbol),
                        quantity |-> Some(quantity), price_per_share |-> Some(price),
                        cash_impact |-> proceeds, balance_after |-> balance + proceeds])
                /\ UNCHANGED initial_deposit_total
                /\ Return(call)

-----------------------------------------------------------------------------
(* The accounts module written out in                                       *)
(* agents/crew/engineering_team/output/test_accounts.py, lines 75-249       *)
(* (_balance, _holdings, _transactions and _initial_deposit are the         *)
(* variables balance, holdings, transactions and initial_deposit_total)     *)

\* Account._log_transaction, called with history txs when _balance is bal
embedded_log_transaction(txs, bal, type_str, cash_impact, symbol, quantity, price_per_share) ==
    Append(txs, [type |-> type_str, cash_impact |-> cash_impact,
                 balance_after |-> bal, symbol |-> symbol,
                 quantity |-> quantity, price_per_share |-> price_per_share])

embedded_deposit(amount) ==
    LET call == Call("deposit", amount, None, 0)
    IN  /\ created /\ impl = "embedded"
        /\ IF amount <= 0
           THEN Raise(call, "InvalidAmount", "ValueError")
           ELSE /\ Len(transactions) < txcap
                /\ balance' = balance + amount
                /\ transactions' =
                       embedded_log_transaction(transactions, balance + amount,
                                                "DEPOSIT", amount, None, None, None)
                /\ UNCHANGED <<holdings, initial_deposit_total>>
                /\ Return(call)

embedded_withdraw(amount) ==
    LET call == Call("withdraw", amount, None, 0)
    IN  /\ created /\ impl = "embedded"
        /\ IF amount <= 0
           THEN Raise(call, "InvalidAmount", "ValueError")
           ELSE IF balance - amount < 0
           THEN Raise(call, "InsufficientFunds", "TradingError")
           ELSE /\ Len(transactions) < txcap
                /\ balance' = balance - amount
                /\ transactions' =
                       embedded_log_transaction(transactions, balance - amount,
                                                "WITHDRAWAL", -amount, None, None, None)
                /\ UNCHANGED <<holdings, initial_deposit_total>>
                /\ Return(call)

embedded_buy_shares(symbol0, quantity) ==
    LET call == Call("buy", 0, symbol0, quantity)
        symbol == upper(symbol0)
        looked == get_share_price(symbol)
        price == looked.price
        total_cost == price * quantity
    IN  /\ created /\ impl = "embedded"
        /\ IF quantity <= 0
           THEN Raise(call, "InvalidQuantity", "ValueError")
           ELSE IF looked.raises
           THEN Raise(call, "UnknownSymbol", "TradingError")
           ELSE IF balance < total_cost
           THEN Raise(call, "InsufficientFunds", "TradingError")
           ELSE /\ Len(transactions) < txcap
                /\ balance' = balance - total_cost
                /\ holdings' = Put(holdings, symbol, Get(holdings, symbol, 0) + quantity)
                /\ transactions' =
                       embedded_log_transaction(transactions, balance - total_cost,
                                                "BUY", -total_cost, Some(symbol),
                                                Some(quantity), Some(price))
                /\ UNCHANGED initial_deposit_total
                /\ Return(call)

\* the price is looked up before the shares are checked
embedded_sell_shares_price_first(symbol0, quantity) ==
    LET call == Call("sell", 0, symbol0, quantity)
        symbol == upper(symbol0)
        current_holding == Get(holdings, symbol, 0)
        looked == get_share_price(symbol)
        price == looked.price
        total_proceeds == price * quantity
        left == holdings[symbol] - quantity
    IN  /\ created /\ impl = "embedded"
        /\ IF quantity <= 0
           THEN Raise(call, "InvalidQuantity", "ValueError")
           ELSE IF looked.raises
           THEN Raise(call, "UnknownSymbol", "TradingError")
           ELSE IF current_holding < quantity
           THEN Raise(call, "InsufficientShares", "TradingError")
           ELSE /\ Len(transactions) < txcap
                /\ balance' = balance + total_proceeds
                /\ holdings' = IF left = 0 THEN Del(holdings, symbol)
                               ELSE Put(holdings, symbol, left)
                /\ transactions' =
                       embedded_log_transaction(transactions, balance + total_proceeds,
                                                "SELL", total_proceeds, Some(symbol),
                                                Some(quantity), Some(price))
                /\ UNCHANGED initial_deposit_total
                /\ Return(call)

embedded_sell_shares(symbol0, quantity) ==
    LET call == Call("sell", 0, symbol0, quantity)
        symbol == upper(symbol0)
        current_holding == Get(holdings, symbol, 0)
        looked == get_share_price(symbol)
        price == looked.price
        total_proceeds == price * quantity
        left == holdings[symbol] - quantity
    IN  /\ created /\ impl = "embedded"
        /\ IF quantity <= 0
           THEN Raise(call, "InvalidQuantity", "ValueError")
           ELSE IF current_holding < quantity
           THEN Raise(call, "InsufficientShares", "TradingError")
           ELSE IF looked.raises
           THEN Raise(call, "UnknownSymbol", "TradingError")
           ELSE /\ Len(transactions) < txcap
                /\ balance' = balance + total_proceeds
                /\ holdings' = IF left = 0 THEN Del(holdings, symbol)
                               ELSE Put(holdings, symbol, left)
                /\ transactions' =
                       embedded_log_transaction(transactions, balance + total_proceeds,
                                                "SELL", total_proceeds, Some(symbol),
                                                Some(quantity), Some(price))
                /\ UNCHANGED initial_deposit_total
                /\ Return(call)

-----------------------------------------------------------------------------
(* The reporting methods.  They assign nothing; each is the value the      *)
(* method returns in the current state.  A method of the crew modules that *)
(* can raise yields [raises, value], value being meaningless when raises   *)
(* is TRUE.  The loops over the items of a dict take the dict as argument. *)

RECURSIVE accounts_stock_value(_)
\* accounts.py, Account.calculate_portfolio_value: the loop adding up stock_value
accounts_stock_value(d) ==
    IF DOMAIN d = {} THEN 0
    ELSE LET symbol == CHOOSE k \in DOMAIN d : TRUE
             quantity == d[symbol]
             rest == accounts_stock_value(Del(d, symbol))
         IN  IF quantity > 0
             THEN get_share_price(symbol).price * quantity + rest
             ELSE rest

\* the cash is left out of the total
portfolio_value_without_cash ==
    [cash_value |-> balance,
     stock_value |-> accounts_stock_value(holdings),
     total_value |-> accounts_stock_value(holdings)]

\* accounts.py, Account.calculate_portfolio_value
accounts_calculate_portfolio_value ==
    [cash_value |-> balance,
     stock_value |-> accounts_stock_value(holdings),
     total_value |-> balance + accounts_stock_value(holdings)]

\* Python's a / b on floats: ZeroDivisionError when b is 0, else the
\* quotient, kept as the fraction <<numerator, denominator>> that the float
\* division rounds
truediv(a, b) ==
    IF b = 0 THEN [raises |-> TRUE, value |-> <<0, 1>>]
    ELSE [raises |-> FALSE, value |-> <<a, b>>]

\* the division is made whatever initial_deposit_total is
profit_loss_percent_unguarded(pl_amount) ==
    LET quotient == truediv(pl_amount, initial_deposit_total)
    IN  [raises |-> quotient.raises,
         value |-> <<quotient.value[1] * 100, quotient.value[2]>>]

\* Account.calculate_profit_loss: pl_percent = 0.0, and
\* (pl_amount / self.initial_deposit_total) * 100 if initial_deposit_total > 0
accounts_profit_loss_percent(pl_amount) ==
    IF initial_deposit_total > 0
    THEN LET quotient == truediv(pl_amount, initial_deposit_total)
         IN  [raises |-> quotient.raises,
              value |-> <<quotient.value[1] * 100, quotient.value[2]>>]
    ELSE [raises |-> FALSE, value |-> <<0, 1>>]

\* the profit or loss is measured on the cash alone
profit_loss_of_cash ==
    LET pl_amount == balance - initial_deposit_total
        pl_percent == accounts_profit_loss_percent(pl_amount)
    IN  [raises |-> pl_percent.raises,
         initial_deposit |-> initial_deposit_total,
         current_total_value |-> accounts_calculate_portfolio_value.total_value,
         profit_loss_amount |-> pl_amount,
         profit_loss_percent |-> pl_percent.value]

\* accounts.py, Account.calculate_profit_loss; raises is TRUE when the
\* method ends in ZeroDivisionError
accounts_calculate_profit_loss ==
    LET current_total_value == accounts_calculate_portfolio_value.total_value
        pl_amount == current_total_value - initial_deposit_total
        pl_percent == accounts_profit_loss_percent(pl_amount)
    IN  [raises |-> pl_percent.raises,
         initial_deposit |-> initial_deposit_total,
         current_total_value |-> current_total_value,
         profit_loss_amount |-> pl_amount,
         profit_loss_percent |-> pl_percent.value]

RECURSIVE working_calculate_current_holdings_value(_)
\* accounts_working.py, Account.calculate_current_holdings_value: a lookup
\* that raises ends the method
working_calculate_current_holdings_value(d) ==
    IF DOMAIN d = {} THEN [raises |-> FALSE, value |-> 0]
    ELSE LET symbol == CHOOSE k \in DOMAIN d : TRUE
             quantity == d[symbol]
             looked == get_share_price(symbol)
             rest == working_calculate_current_holdings_value(Del(d, symbol))
         IN  IF looked.raises \/ rest.raises
             THEN [raises |-> TRUE, value |-> 0]
             ELSE [raises |-> FALSE, value |-> looked.price * quantity + rest.value]

\* accounts_working.py, Account.calculate_portfolio_value
working_calculate_portfolio_value ==
    LET held == working_calculate_current_holdings_value(holdings)
    IN  [raises |-> held.raises, value |-> balance + held.value]

\* accounts_working.py, Account.calculate_profit_loss
working_calculate_profit_loss ==
    LET current == working_calculate_portfolio_value
    IN  [raises |-> current.raises, value |-> current.value - initial_deposit_total]

RECURSIVE embedded_calculate_current_holdings_value(_)
\* the embedded module, Account.calculate_current_holdings_value: a lookup
\* that raises is caught and the loop continues
embedded_calculate_current_holdings_value(d) ==
    IF DOMAIN d = {} THEN [raises |-> FALSE, value |-> 0]
    ELSE LET symbol == CHOOSE k \in DOMAIN d : TRUE
             quantity == d[symbol]
             looked == get_share_price(symbol)
             rest == embedded_calculate_current_holdings_value(Del(d, symbol))
         IN  IF looked.raises THEN rest
             ELSE [raises |-> FALSE, value |-> looked.price * quantity + rest.value]

\* the embedded module, Account.calculate_portfolio_value
embedded_calculate_portfolio_value ==
    LET holdings_value == embedded_calculate_current_holdings_value(holdings)
    IN  [raises |-> holdings_value.raises, value |-> balance + holdings_value.value]

\* the embedded module, Account.calculate_profit_loss
embedded_calculate_profit_loss ==
    LET current_value == embedded_calculate_portfolio_value
    IN  [raises |-> current_value.raises,
         value |-> current_value.value - initial_deposit_total]

\* the value of the holdings, of the portfolio and the profit or loss, as
\* the account's implementation reports them
current_holdings_value ==
    IF impl = "accounts"
    THEN [raises |-> FALSE, value |-> accounts_calculate_portfolio_value.stock_value]
    ELSE IF impl = "accounts_working"
    THEN working_calculate_current_holdings_value(holdings)
    ELSE embedded_calculate_current_holdings_value(holdings)

portfolio_value ==
    IF impl = "accounts"
    THEN [raises |-> FALSE, value |-> accounts_calculate_portfolio_value.total_value]
    ELSE IF impl = "accounts_working" THEN working_calculate_portfolio_value
    ELSE embedded_calculate_portfolio_value

profit_loss ==
    IF impl = "accounts"
    THEN [raises |-> accounts_calculate_profit_loss.raises,
          value |-> accounts_calculate_profit_loss.profit_loss_amount]
    ELSE IF impl = "accounts_working" THEN working_calculate_profit_loss
    ELSE embedded_calculate_profit_loss

-----------------------------------------------------------------------------
(* What get_holdings and get_transaction_history return.  A Python list or *)
(* dict is an object: the method returns either the account's own object   *)
(* (alias is TRUE: a write the caller makes through it is a write to the   *)
(* account) or a new object (alias is FALSE) with the items given.  The    *)
(* items of a new list are the record objects of the account's list, named *)
(* by their place in it; 0 names an object the caller has put in.  writes  *)
(* counts the writes the caller has made.                                  *)

NoReturn == [of |-> "none", alias |-> FALSE, items |-> <<>>, writes |-> 0]
Own(of) == [of |-> of, alias |-> TRUE, items |-> <<>>, writes |-> returned.writes]
New(of, items) == [of |-> of, alias |-> FALSE, items |-> items, writes |-> returned.writes]

\* the account's own dict is returned
get_holdings_own_dict == Own("holdings")

\* accounts.py, Account.get_holdings: a dict comprehension
accounts_get_holdings ==
    New("holdings", [s \in {k \in DOMAIN holdings : holdings[k] > 0} |-> holdings[s]])

\* accounts.py, Account.get_transaction_history: return self.transactions
accounts_get_transaction_history == Own("history")

\* accounts_working.py, Account.get_holdings: self.holdings.copy()
working_get_holdings == New("holdings", holdings)

\* accounts_working.py, Account.get_transaction_history:
\* self.transaction_history.copy(), a new list of the same records
working_get_transaction_history ==
    New("history", [i \in 1 .. Len(transactions) |-> i])

\* the embedded module, Account.get_holdings: self._holdings.copy()
embedded_get_holdings == New("holdings", holdings)

\* the embedded module, Account.get_transaction_history: return self._transactions
embedded_get_transaction_history == Own("history")

\* a getter returns: nothing of the account is assigned
Got(op) ==
    /\ last' = Outcome(Call(op, 0, None, 0), "ok", "None")
    /\ pre' = Snapshot
    /\ UNCHANGED <<callers, other, impl, created, mock, txcap, account>>

\* a call of get_holdings: the caller holds what it returns
get_holdings ==
    /\ created
    /\ returned' = IF impl = "accounts" THEN accounts_get_holdings
                   ELSE IF impl = "accounts_working" THEN working_get_holdings
                   ELSE embedded_get_holdings
    /\ Got("get_holdings")

\* a call of get_transaction_history: the caller holds what it returns
get_transaction_history ==
    /\ created
    /\ returned' = IF impl = "accounts" THEN accounts_get_transaction_history
                   ELSE IF impl = "accounts_working" THEN working_get_transaction_history
                   ELSE embedded_get_transaction_history
    /\ Got("get_transaction_history")

(* The caller writes through what it holds, as Python lets it:             *)
(* history.append(record), history.pop(), history[0][field] = 0 on a list, *)
(* holdings[symbol] = quantity and del holdings[symbol] on a dict.         *)

\* a record made by the caller
Forged ==
    IF impl = "accounts"
    THEN [type |-> "FORGED", symbol |-> None, quantity |-> None, price |-> None,
          amount |-> 0]
    ELSE [type |-> "FORGED", symbol |-> None, quantity |-> None,
          price_per_share |-> None, cash_impact |-> 0, balance_after |-> 0]

\* record[field] = 0, on the field that holds the cash impact
Altered(r) ==
    IF impl = "accounts" THEN [r EXCEPT !.amount = 0]
    ELSE [r EXCEPT !.cash_impact = 0]

\* a write by the caller: what it leaves of the account and of what it holds
CallerWrite(op, symbol, quantity, txs, hold, items) ==
    /\ created
    /\ returned.writes < MaxWrites
    /\ transactions' = txs
    /\ holdings' = hold
    /\ returned' = [returned EXCEPT !.items = items, !.writes = @ + 1]
    /\ last' = Outcome(Call(op, 0, symbol, quantity), "ok", "None")
    /\ pre' = Snapshot
    /\ UNCHANGED <<callers, other, impl, created, mock, txcap, balance,
                   initial_deposit_total>>

caller_append ==
    /\ returned.of = "history"
    /\ IF returned.alias
       THEN /\ Len(transactions) < txcap
            /\ CallerWrite("caller_append", None, 0, Append(transactions, Forged),
                           holdings, returned.items)
       ELSE /\ Len(returned.items) < txcap
            /\ CallerWrite("caller_append", None, 0, transactions, holdings,
                           Append(returned.items, 0))

caller_pop ==
    /\ returned.of = "history"
    /\ IF returned.alias
       THEN /\ Len(transactions) > 0
            /\ CallerWrite("caller_pop", None, 0,
                           SubSeq(transactions, 1, Len(transactions) - 1),
                           holdings, returned.items)
       ELSE /\ Len(returned.items) > 0
            /\ CallerWrite("caller_pop", None, 0, transactions, holdings,
                           SubSeq(returned.items, 1, Len(returned.items) - 1))

caller_alter ==
    /\ returned.of = "history"
    /\ IF returned.alias
       THEN /\ Len(transactions) > 0
            /\ CallerWrite("caller_alter", None, 0,
                           [transactions EXCEPT ![1] = Altered(@)],
                           holdings, returned.items)
       ELSE /\ Len(returned.items) > 0
            /\ CallerWrite("caller_alter", None, 0,
                           IF returned.items[1] > 0
                           THEN [transactions EXCEPT ![returned.items[1]] = Altered(@)]
                           ELSE transactions,
                           holdings, returned.items)

caller_put(symbol, quantity) ==
    /\ returned.of = "holdings"
    /\ IF returned.alias
       THEN CallerWrite("caller_put", symbol, quantity, transactions,
                        Put(holdings, symbol, quantity), returned.items)
       ELSE CallerWrite("caller_put", symbol, quantity, transactions, holdings,
                        Put(returned.items, symbol, quantity))

caller_del(symbol) ==
    /\ returned.of = "holdings"
    /\ IF returned.alias
       THEN /\ symbol \in DOMAIN holdings
            /\ CallerWrite("caller_del", symbol, 0, transactions,
                           Del(holdings, symbol), returned.items)
       ELSE /\ symbol \in DOMAIN returned.items
            /\ CallerWrite("caller_del", symbol, 0, transactions, holdings,
                           Del(returned.items, symbol))

-----------------------------------------------------------------------------
(* Construction *)

\* the fields of a newly constructed account, and whether there is one
NewAccount(ok, bal, txs, dep, d, err, exc) ==
    /\ created = ok
    /\ balance = bal
    /\ holdings = EmptyDict
    /\ transactions = txs
    /\ initial_deposit_total = dep
    /\ last = Outcome(Call("__init__", d, None, 0), err, exc)
    /\ pre = [balance |-> bal, holdings |-> EmptyDict, transactions |-> txs,
              initial_deposit_total |-> dep]

\* accounts.py: Account(account_id)
accounts_init ==
    /\ impl = "accounts"
    /\ NewAccount(TRUE, 0, <<>>, 0, 0, "ok", "None")

\* accounts_working.py: Account(account_holder_name, initial_deposit)
working_init(initial_deposit) ==
    /\ impl = "accounts_working"
    /\ NewAccount(TRUE, initial_deposit, <<>>, initial_deposit, initial_deposit,
                  "ok", "None")

\* the embedded module: Account(account_holder_name, initial_deposit=0.0)
embedded_init(initial_deposit) ==
    /\ impl = "embedded"
    /\ IF initial_deposit < 0
       THEN NewAccount(FALSE, 0, <<>>, 0, initial_deposit, "InvalidAmount", "ValueError")
       ELSE IF initial_deposit > 0
       THEN NewAccount(TRUE, 0 + initial_deposit,
                       embedded_log_transaction(<<>>, 0 + initial_deposit, "DEPOSIT",
                                                initial_deposit, None, None, None),
                       initial_deposit, initial_deposit, "ok", "None")
       ELSE NewAccount(TRUE, 0, <<>>, 0, initial_deposit, "ok", "None")

-----------------------------------------------------------------------------
(* The tests of the crew's accounts module replace get_share_price by a    *)
(* mock (mock.patch) whose side_effect is ValueError, so that every lookup *)
(* raises, and put the module's function back when they leave the patch.   *)
(* The prices of accounts.py stay those of its get_share_price.            *)

Mocks == {"none", "side_effect"}

patch_get_share_price(m) ==
    /\ created /\ impl # "accounts"
    /\ m # mock
    /\ mock' = m
    /\ last' = Outcome(Call("patch", 0, None, 0), "ok", "None")
    /\ pre' = Snapshot
    /\ UNCHANGED <<callers, other, impl, created, txcap, returned, account>>

-----------------------------------------------------------------------------
Init ==
    /\ mock = "none"
    /\ txcap = MaxTx
    /\ returned = NoReturn
    /\ callers = NoCalls
    /\ other = NoOther
    /\ \/ accounts_init
       \/ \E d \in InitialDeposits : working_init(d)
       \/ \E d \in InitialDeposits : embedded_init(d)

Next ==
    \/ \E a \in Amounts : accounts_deposit(a)
    \/ \E a \in Amounts : accounts_withdraw(a)
    \/ \E s \in Symbols, q \in Quantities : accounts_buy_shares(s, q)
    \/ \E s \in Symbols, q \in Quantities : accounts_sell_shares(s, q)
    \/ \E a \in Amounts : working_deposit(a)
    \/ \E a \in Amounts : working_withdraw(a)
    \/ \E s \in Symbols, q \in Quantities : working_buy_shares(s, q)
    \/ \E s \in Symbols, q \in Quantities : working_sell_shares(s, q)
    \/ \E a \in Amounts : embedded_deposit(a)
    \/ \E a \in Amounts : embedded_withdraw(a)
    \/ \E s \in Symbols, q \in Quantities : embedded_buy_shares(s, q)
    \/ \E s \in Symbols, q \in Quantities : embedded_sell_shares(s, q)
    \/ \E m \in Mocks : patch_get_share_price(m)

Spec == Init /\ [][Next]_vars

-----------------------------------------------------------------------------
(* The worked scenario in the header of accounts.py (lines 3-21): the      *)
(* calls it makes, offered in any order and any number of times to a new   *)
(* account of accounts.py, until the history has as many records as the    *)
(* scenario has calls.                                                     *)

Scenario ==
    << Call("deposit", Money(10000, 0), None, 0),
       Call("buy", 0, AAPL, 10),
       Call("buy", 0, GOOGL, 1),
       Call("sell", 0, AAPL, 5),
       Call("withdraw", Money(500, 0), None, 0) >>

ScenarioCalls(op) == {c \in {Scenario[i] : i \in DOMAIN Scenario} : c.op = op}

InitScenario ==
    /\ mock = "none"
    /\ txcap = Len(Scenario)
    /\ returned = NoReturn
    /\ callers = NoCalls
    /\ other = NoOther
    /\ accounts_init

NextScenario ==
    \/ \E c \in ScenarioCalls("deposit") : accounts_deposit(c.amount)
    \/ \E c \in ScenarioCalls("withdraw") : accounts_withdraw(c.amount)
    \/ \E c \in ScenarioCalls("buy") : accounts_buy_shares(c.symbol, c.quantity)
    \/ \E c \in ScenarioCalls("sell") : accounts_sell_shares(c.symbol, c.quantity)

SpecScenario == InitScenario /\ [][NextScenario]_vars

-----------------------------------------------------------------------------
(* The account with a caller that keeps what get_holdings and              *)
(* get_transaction_history return and writes through it, between deposits, *)
(* purchases and sales of one share of AAPL.                               *)

InitHandles ==
    /\ mock = "none"
    /\ txcap = MaxTx
    /\ returned = NoReturn
    /\ callers = NoCalls
    /\ other = NoOther
    /\ \/ accounts_init
       \/ working_init(Money(1000, 0))
       \/ embedded_init(Money(1000, 0))

NextHandles ==
    \/ accounts_deposit(Money(750, 0))
    \/ accounts_buy_shares(AAPL, 1)
    \/ accounts_sell_shares(AAPL, 1)
    \/ working_deposit(Money(750, 0))
    \/ working_buy_shares(AAPL, 1)
    \/ working_sell_shares(AAPL, 1)
    \/ embedded_deposit(Money(750, 0))
    \/ embedded_buy_shares(AAPL, 1)
    \/ embedded_sell_shares(AAPL, 1)
    \/ get_holdings
    \/ get_transaction_history
    \/ caller_append
    \/ caller_pop
    \/ caller_alter
    \/ \E q \in {0, MaxQty} : caller_put(AAPL, q)
    \/ caller_del(AAPL)

SpecHandles == InitHandles /\ [][NextHandles]_vars

-----------------------------------------------------------------------------
(* Vocabulary of the properties *)

Mutating == {"deposit", "withdraw", "buy", "sell"}

\* the last call was op, on an account that exists
Called(op) == created /\ last.op = op
Ok == last.err = "ok"
Failed(kind) == last.err = kind

\* the account is as it was before the last call
Unchanged == Snapshot = pre

\* the fields of a record, whatever the implementation names them
CashImpact(r) == IF impl = "accounts" THEN r.amount ELSE r.cash_impact
PricePerShare(r) == IF impl = "accounts" THEN r.price ELSE r.price_per_share
Kind(r) ==
    IF r.type \in {"DEPOSIT", "Deposit"} THEN "DEPOSIT"
    ELSE IF r.type \in {"WITHDRAW", "WITHDRAWAL", "Withdrawal"} THEN "WITHDRAW"
    ELSE IF r.type \in {"BUY", "Buy"} THEN "BUY"
    ELSE IF r.type \in {"SELL", "Sell"} THEN "SELL"
    ELSE "other"

\* the key of holdings a call on symbol acts on
HoldingKey(symbol) == IF impl = "accounts" THEN symbol ELSE upper(symbol)

\* the sum of f over the set S
RECURSIVE Sum(_, _)
Sum(f, S) ==
    IF S = {} THEN 0
    ELSE LET x == CHOOSE y \in S : TRUE IN f[x] + Sum(f, S \ {x})

\* the held symbols the oracle prices, and what the shares held of them are
\* worth at its prices
PricedHoldings == {k \in DOMAIN holdings : ~get_share_price(k).raises}
Worth == Sum([k \in PricedHoldings |-> get_share_price(k).price * holdings[k]],
             PricedHoldings)

\* the DEPOSIT records of the history, and the sum of their amounts
Deposits == {i \in 1 .. Len(transactions) : Kind(transactions[i]) = "DEPOSIT"}
Deposited == Sum([i \in Deposits |-> CashImpact(transactions[i])], Deposits)

\* the last call appended exactly the record LastRecord to the history
AppendedOne ==
    /\ Len(transactions) = Len(pre.transactions) + 1
    /\ SubSeq(transactions, 1, Len(pre.transactions)) = pre.transactions
LastRecord == transactions[Len(transactions)]

-----------------------------------------------------------------------------
(* C1: on an account of accounts.py (and of the embedded module), whatever *)
(* deposit, withdraw, buy and sell calls were made, failing or not, the    *)
(* cash balance is never negative.                                         *)
C1_BalanceNeverNegative ==
    (created /\ impl \in {"accounts", "embedded"}) => balance >= 0

\* a withdrawal of more than a positive balance has been refused
C1_Witness ==
    /\ impl = "accounts" /\ Called("withdraw") /\ Failed("InsufficientFunds")
    /\ pre.balance > 0 /\ last.amount > pre.balance

(* C2: every quantity in holdings is strictly positive: a symbol is a key  *)
(* of holdings exactly when its held quantity is > 0.                      *)
C2_HoldingsPositive ==
    created => \A k \in DOMAIN holdings : holdings[k] > 0

\* a sale of all the shares of a symbol has removed its entry
C2_Witness ==
    /\ Called("sell") /\ Ok
    /\ HoldingKey(last.symbol) \in DOMAIN pre.holdings
    /\ HoldingKey(last.symbol) \notin DOMAIN holdings

(* C3: a deposit, withdraw, buy or sell call that fails leaves balance,    *)
(* holdings, initial_deposit_total and the history as they were.           *)
C3_FailureChangesNothing ==
    (created /\ last.op \in Mutating /\ ~Ok) => Unchanged

\* a sale of held shares has failed because the symbol had no price
C3_Witness ==
    /\ Called("sell") /\ Failed("UnknownSymbol")
    /\ HoldingKey(last.symbol) \in DOMAIN holdings

(* C4: a successful deposit, withdraw, buy or sell appends exactly one     *)
(* record to the history, a failing one appends none, and where the record *)
(* carries balance_after it is the balance the call has left: the record   *)
(* is made after the balance is changed.                                   *)
C4_OneRecordPerSuccess ==
    (created /\ last.op \in Mutating) =>
        /\ Ok => AppendedOne
        /\ ~Ok => transactions = pre.transactions
        /\ (Ok /\ impl # "accounts") => LastRecord.balance_after = balance

\* a purchase has succeeded on a history that was not empty
C4_Witness ==
    /\ Called("buy") /\ Ok /\ Len(pre.transactions) > 0 /\ balance # pre.balance

(* C5: a deposit of d > 0 succeeds, adds d to the balance and to           *)
(* initial_deposit_total, leaves holdings alone and appends one DEPOSIT    *)
(* record whose cash impact is +d.                                         *)
C5_DepositEffect ==
    (Called("deposit") /\ last.amount > 0) =>
        /\ Ok
        /\ balance = pre.balance + last.amount
        /\ initial_deposit_total = pre.initial_deposit_total + last.amount
        /\ holdings = pre.holdings
        /\ AppendedOne
        /\ Kind(LastRecord) = "DEPOSIT"
        /\ CashImpact(LastRecord) = last.amount

(* C6: on an account of accounts.py or of the embedded module, a           *)
(* withdrawal of w with 0 < w <= balance (w = balance included) succeeds,  *)
(* takes w off the balance, leaves holdings and initial_deposit_total      *)
(* alone and appends one WITHDRAW record whose cash impact is -w; with     *)
(* w > balance it fails with InsufficientFunds and changes nothing.        *)
C6_WithdrawEffect ==
    (Called("withdraw") /\ impl \in {"accounts", "embedded"}) =>
        /\ (0 < last.amount /\ last.amount <= pre.balance) =>
              /\ Ok
              /\ balance = pre.balance - last.amount
              /\ holdings = pre.holdings
              /\ initial_deposit_total = pre.initial_deposit_total
              /\ AppendedOne
              /\ Kind(LastRecord) = "WITHDRAW"
              /\ CashImpact(LastRecord) = -last.amount
        /\ last.amount > pre.balance =>
              /\ Failed("InsufficientFunds")
              /\ Unchanged

\* the whole balance has been withdrawn
C6_Witness ==
    /\ Called("withdraw") /\ impl = "accounts" /\ Ok
    /\ last.amount = pre.balance /\ balance = 0

(* C7: deposit and withdraw of an amount <= 0 fail with InvalidAmount and  *)
(* change nothing, whatever the balance: withdraw checks the amount before *)
(* the funds.                                                              *)
C7_InvalidAmount ==
    (created /\ last.op \in {"deposit", "withdraw"} /\ last.amount <= 0) =>
        /\ Failed("InvalidAmount")
        /\ Unchanged

\* a withdrawal of an amount <= 0 that is also more than the balance
C7_Witness ==
    /\ Called("withdraw") /\ last.amount <= 0 /\ pre.balance < last.amount
    /\ Failed("InvalidAmount")

(* C8: a successful buy of q shares of a symbol at the oracle's price p    *)
(* takes p*q off the balance, adds q to the held quantity of the symbol    *)
(* (an entry of q if there was none), leaves every other holding and       *)
(* initial_deposit_total alone and appends one BUY record with the symbol, *)
(* q, p and the cash impact -(p*q).                                        *)
C8_BuyEffect ==
    (Called("buy") /\ Ok) =>
        LET k == HoldingKey(last.symbol)
            q == last.quantity
            p == get_share_price(last.symbol).price
        IN  /\ balance = pre.balance - p * q
            /\ DOMAIN holdings = DOMAIN pre.holdings \cup {k}
            /\ holdings[k] = Get(pre.holdings, k, 0) + q
            /\ \A x \in DOMAIN pre.holdings \ {k} : holdings[x] = pre.holdings[x]
            /\ initial_deposit_total = pre.initial_deposit_total
            /\ AppendedOne
            /\ Kind(LastRecord) = "BUY"
            /\ LastRecord.symbol = Some(k)
            /\ LastRecord.quantity = Some(q)
            /\ PricePerShare(LastRecord) = Some(p)
            /\ CashImpact(LastRecord) = -(p * q)

\* a purchase of a symbol not held before, beside a holding of another symbol
C8_Witness ==
    /\ Called("buy") /\ Ok
    /\ HoldingKey(last.symbol) \notin DOMAIN pre.holdings
    /\ pre.holdings # EmptyDict

(* C9: a buy of q > 0 shares of a symbol the oracle prices fails with      *)
(* InsufficientFunds exactly when price*q is more than the balance; a buy  *)
(* that costs the whole balance succeeds and leaves 0; the failure changes *)
(* nothing.                                                                *)
C9_BuyFunds ==
    (Called("buy") /\ last.quantity > 0 /\ ~get_share_price(last.symbol).raises) =>
        LET cost == get_share_price(last.symbol).price * last.quantity
        IN  /\ Failed("InsufficientFunds") <=> cost > pre.balance
            /\ cost = pre.balance => (Ok /\ balance = 0)
            /\ Failed("InsufficientFunds") => Unchanged

\* a purchase has taken the whole balance
C9_Witness ==
    /\ Called("buy") /\ impl = "accounts" /\ Ok
    /\ pre.balance > 0 /\ balance = 0

\* the oracle recognises the symbol: it is one its price table names
Recognised(symbol) ==
    /\ mock # "side_effect"
    /\ IF impl = "accounts" THEN symbol \in accounts_known
       ELSE ~get_share_price(symbol).raises

(* C10: a buy of q > 0 shares of a symbol the price oracle does not        *)
(* recognise fails with UnknownSymbol and leaves balance, holdings and     *)
(* history as they were, so that no holding is created for such a symbol.  *)
C10_UnknownSymbolRefused ==
    (Called("buy") /\ last.quantity > 0 /\ ~Recognised(last.symbol)) =>
        /\ Failed("UnknownSymbol")
        /\ Unchanged

(* C11: buy and sell of a quantity <= 0 fail with InvalidQuantity and      *)
(* change nothing, whatever the symbol, the balance and the holdings.      *)
C11_InvalidQuantity ==
    (created /\ last.op \in {"buy", "sell"} /\ last.quantity <= 0) =>
        /\ Failed("InvalidQuantity")
        /\ Unchanged

\* a purchase of zero shares of a symbol without a price, by an account
\* that has cash
C11_Witness ==
    /\ Called("buy") /\ impl = "accounts" /\ last.quantity = 0
    /\ last.symbol = XYZ /\ balance > 0 /\ Failed("InvalidQuantity")

(* C12: a successful sell of q shares of a symbol at the oracle's price p  *)
(* adds p*q to the balance and takes q off the held quantity of the        *)
(* symbol; the entry is deleted when nothing is left and kept otherwise;   *)
(* every other holding and initial_deposit_total are as before, and one    *)
(* SELL record with the symbol, q, p and the cash impact +(p*q) is         *)
(* appended.                                                               *)
C12_SellEffect ==
    (Called("sell") /\ Ok) =>
        LET k == HoldingKey(last.symbol)
            q == last.quantity
            p == get_share_price(last.symbol).price
            left == Get(pre.holdings, k, 0) - q
        IN  /\ balance = pre.balance + p * q
            /\ left >= 0
            /\ left = 0 => k \notin DOMAIN holdings
            /\ left > 0 => (k \in DOMAIN holdings /\ holdings[k] = left)
            /\ DOMAIN holdings \ {k} = DOMAIN pre.holdings \ {k}
            /\ \A x \in DOMAIN pre.holdings \ {k} : holdings[x] = pre.holdings[x]
            /\ initial_deposit_total = pre.initial_deposit_total
            /\ AppendedOne
            /\ Kind(LastRecord) = "SELL"
            /\ LastRecord.symbol = Some(k)
            /\ LastRecord.quantity = Some(q)
            /\ PricePerShare(LastRecord) = Some(p)
            /\ CashImpact(LastRecord) = p * q

\* a sale of one share of a symbol of which more are held
C12_Witness ==
    /\ Called("sell") /\ Ok /\ impl = "accounts"
    /\ last.quantity = 1
    /\ pre.holdings = Put(EmptyDict, last.symbol, MaxQty)
    /\ holdings = Put(EmptyDict, last.symbol, MaxQty - 1)

(* C13: a sell of q > 0 shares fails with InsufficientShares exactly when  *)
(* q is more than the held quantity of the symbol (0 when the symbol is    *)
(* not held), and then holdings and balance are as before; a sell of       *)
(* exactly the held quantity does not fail this check.                     *)
C13_SellShares ==
    (Called("sell") /\ last.quantity > 0) =>
        LET held == Get(pre.holdings, HoldingKey(last.symbol), 0)
        IN  /\ last.quantity > held => (Failed("InsufficientShares") /\ Unchanged)
            /\ last.quantity <= held => ~Failed("InsufficientShares")

\* a sale of more shares of a symbol than the one that is held has been
\* refused
C13_Witness ==
    /\ Called("sell") /\ impl = "accounts" /\ Failed("InsufficientShares")
    /\ Get(holdings, last.symbol, 0) = 1
    /\ last.quantity > 1

(* C14: sell checks the quantity, then the shares, then the price: a sell  *)
(* of more shares than are held of a symbol the oracle cannot price fails  *)
(* with InsufficientShares, and a sell fails with UnknownSymbol exactly    *)
(* when 0 < q <= held and the oracle cannot price the symbol; holdings and *)
(* balance are then as before.                                             *)
C14_SellCheckOrder ==
    Called("sell") =>
        LET q == last.quantity
            held == Get(pre.holdings, HoldingKey(last.symbol), 0)
            unpriced == get_share_price(last.symbol).raises
        IN  /\ (unpriced /\ q <= 0) => Failed("InvalidQuantity")
            /\ (unpriced /\ q > 0 /\ q > held) => Failed("InsufficientShares")
            /\ Failed("UnknownSymbol") <=> (unpriced /\ 0 < q /\ q <= held)
            /\ Failed("UnknownSymbol") => Unchanged

\* a sale of more shares than are held of a held symbol that has no price
C14_Witness ==
    /\ Called("sell") /\ impl = "embedded"
    /\ get_share_price(last.symbol).raises
    /\ upper(last.symbol) \in DOMAIN holdings
    /\ last.quantity > holdings[upper(last.symbol)]
    /\ Failed("InsufficientShares")

(* C15: buy and sell normalise the case of the symbol on entry: whatever   *)
(* the spelling, a successful call acts on the entry of the upper-cased    *)
(* symbol at the price of the upper-cased symbol, and holdings never has   *)
(* two keys that differ only in case.                                      *)
C15_CaseNormalised ==
    created =>
        /\ \A k1, k2 \in DOMAIN holdings : upper(k1) = upper(k2) => k1 = k2
        /\ (last.op \in {"buy", "sell"} /\ Ok) =>
              /\ LastRecord.symbol = Some(upper(last.symbol))
              /\ PricePerShare(LastRecord) =
                     Some(get_share_price(upper(last.symbol)).price)

(* C16: when a buy of q shares of a symbol has succeeded and is followed   *)
(* by a sell of q shares of the same symbol at the same price, the sell    *)
(* succeeds and the balance and the holdings are again what they were      *)
(* before the buy: the entry of a symbol that was not held is gone.        *)
C16_RoundTrip ==
    [][(/\ Called("buy") /\ Ok
        /\ last'.op = "sell"
        /\ last'.symbol = last.symbol
        /\ last'.quantity = last.quantity)
       => (/\ last'.err = "ok"
           /\ balance' = pre.balance
           /\ holdings' = pre.holdings)]_vars

\* the last two records are a BUY and a SELL of the same shares of a symbol
\* that was not held before and is not held now
C16_Witness ==
    /\ Called("sell") /\ Ok /\ impl = "accounts"
    /\ Len(transactions) >= 2
    /\ LET b == transactions[Len(transactions) - 1]
       IN  /\ Kind(b) = "BUY"
           /\ b.symbol = LastRecord.symbol
           /\ b.quantity = LastRecord.quantity
           /\ b.amount = -LastRecord.amount
    /\ last.symbol \notin DOMAIN holdings
    /\ balance = initial_deposit_total

(* C17: in every state where the oracle prices every held symbol, the      *)
(* portfolio value is reported, and it is the cash balance plus the sum    *)
(* over the holdings of price times held quantity.                         *)
C17_PortfolioValue ==
    (created /\ PricedHoldings = DOMAIN holdings) =>
        /\ ~portfolio_value.raises
        /\ portfolio_value.value = balance + Worth

\* an account of accounts.py with cash and shares of two symbols
C17_Witness ==
    /\ created /\ impl = "accounts" /\ balance > 0
    /\ Cardinality(DOMAIN holdings) = 2
    /\ accounts_calculate_portfolio_value.total_value > balance

(* C18: on an account of accounts.py, in every state the profit or loss    *)
(* reported is the portfolio value minus initial_deposit_total, and        *)
(* initial_deposit_total is the sum of all the amounts ever deposited.     *)
C18_ProfitLoss ==
    (created /\ impl = "accounts") =>
        /\ accounts_calculate_profit_loss.profit_loss_amount =
               accounts_calculate_portfolio_value.total_value - initial_deposit_total
        /\ accounts_calculate_profit_loss.initial_deposit = initial_deposit_total
        /\ initial_deposit_total = Deposited

\* two deposits and a purchase have been made
C18_Witness ==
    /\ created /\ impl = "accounts"
    /\ Cardinality(Deposits) = 2
    /\ holdings # EmptyDict
    /\ accounts_calculate_profit_loss.profit_loss_amount = 0

(* C19: the value of the holdings is reported in every state, never an     *)
(* error: a held symbol the oracle cannot price is skipped, and the value  *)
(* is the sum of price times quantity over the held symbols it prices.     *)
C19_HoldingsValueTotal ==
    created =>
        /\ ~current_holdings_value.raises
        /\ current_holdings_value.value = Worth

\* the record r of accounts.py is the record of a success of the call c
RecordOf(r, c) ==
    IF c.op = "deposit" THEN r.type = "DEPOSIT" /\ r.amount = c.amount
    ELSE IF c.op = "withdraw" THEN r.type = "WITHDRAW" /\ r.amount = -c.amount
    ELSE /\ r.type = (IF c.op = "buy" THEN "BUY" ELSE "SELL")
         /\ r.symbol = Some(c.symbol)
         /\ r.quantity = Some(c.quantity)

\* the calls that have succeeded are the first n calls of the scenario
Done(n) ==
    /\ Len(transactions) = n
    /\ \A i \in 1 .. n : RecordOf(transactions[i], Scenario[i])

(* C20: on a new account of accounts.py (AAPL at 170.50, GOOGL at          *)
(* 2500.25), each call of the scenario succeeds in its turn; after the     *)
(* deposit of 10000.00 and the buys of 10 AAPL and 1 GOOGL the balance is  *)
(* 5794.75, the holdings are worth 4205.25, the portfolio 10000.00 and the *)
(* profit or loss is 0.00; after the sell of 5 AAPL the balance is         *)
(* 6647.25; after the withdrawal of 500.00 the balance is 6147.25, the     *)
(* holdings are AAPL 5 and GOOGL 1, the portfolio is worth 9500.00 and the *)
(* profit or loss is -500.00.                                              *)
C20_Scenario ==
    LET pv == accounts_calculate_portfolio_value
        pl == accounts_calculate_profit_loss
    IN  /\ \A n \in 0 .. Len(Scenario) - 1 :
              (Done(n) /\ last.op = Scenario[n + 1].op
                       /\ last.amount = Scenario[n + 1].amount
                       /\ last.symbol = Scenario[n + 1].symbol
                       /\ last.quantity = Scenario[n + 1].quantity) => Ok
        /\ Done(3) =>
              /\ balance = Money(5794, 75)
              /\ pv.stock_value = Money(4205, 25)
              /\ pv.total_value = Money(10000, 0)
              /\ pl.profit_loss_amount = 0
        /\ Done(4) => balance = Money(6647, 25)
        /\ Done(5) =>
              /\ balance = Money(6147, 25)
              /\ holdings = Put(Put(EmptyDict, AAPL, 5), GOOGL, 1)
              /\ pv.total_value = Money(9500, 0)
              /\ pl.profit_loss_amount = -Money(500, 0)

\* the whole scenario has been played, the withdrawal last
C20_Witness ==
    /\ Done(5) /\ Called("withdraw") /\ Ok

(* C21: initial_deposit_total never decreases: a call leaves it as it was  *)
(* unless it is a successful deposit, so that withdraw, buy, sell and      *)
(* every failing call leave it unchanged.                                  *)
C21_DepositTotalMonotonic ==
    created =>
        /\ initial_deposit_total >= pre.initial_deposit_total
        /\ initial_deposit_total # pre.initial_deposit_total =>
               (Called("deposit") /\ Ok)

\* a withdrawal has succeeded on an account of accounts.py after a deposit
C21_Witness ==
    /\ Called("withdraw") /\ Ok /\ impl = "accounts"
    /\ initial_deposit_total > 0
    /\ balance < pre.balance

(* C22: an account created with an initial deposit d > 0 has balance d,    *)
(* initial_deposit_total d and a history of exactly one DEPOSIT record     *)
(* whose cash impact is d; an account created with none, or with 0, has    *)
(* balance 0, no holdings, initial_deposit_total 0 and an empty history.   *)
C22_Creation ==
    (created /\ last.op = "__init__") =>
        /\ holdings = EmptyDict
        /\ last.amount > 0 =>
              /\ balance = last.amount
              /\ initial_deposit_total = last.amount
              /\ Len(transactions) = 1
              /\ Kind(transactions[1]) = "DEPOSIT"
              /\ CashImpact(transactions[1]) = last.amount
        /\ last.amount = 0 =>
              /\ balance = 0
              /\ initial_deposit_total = 0
              /\ transactions = <<>>

(* C23: the creation of an account with a negative initial deposit fails   *)
(* with an error and gives no account, so that no account starts with a    *)
(* negative balance or a negative initial_deposit_total.                   *)
C23_NegativeCreationRejected ==
    last.op = "__init__" =>
        /\ last.amount < 0 => (~created /\ ~Ok)
        /\ created => (balance >= 0 /\ initial_deposit_total >= 0)

\* the kind of record a successful call of op makes
KindOf(op) ==
    IF op = "deposit" THEN "DEPOSIT"
    ELSE IF op = "withdraw" THEN "WITHDRAW"
    ELSE IF op = "buy" THEN "BUY"
    ELSE "SELL"

(* C24: the history is append-only and in the order of the calls: the      *)
(* history before a call is a prefix of the history after it (no record is *)
(* removed, moved or altered), and the record of a successful call is the  *)
(* last one.                                                               *)
C24_HistoryAppendOnly ==
    created =>
        /\ Len(pre.transactions) <= Len(transactions)
        /\ SubSeq(transactions, 1, Len(pre.transactions)) = pre.transactions
        /\ (last.op \in Mutating /\ Ok) =>
              /\ Len(transactions) = Len(pre.transactions) + 1
              /\ Kind(LastRecord) = KindOf(last.op)

\* a purchase has been recorded after a deposit on an account of accounts.py
C24_Witness ==
    /\ Called("buy") /\ Ok /\ impl = "accounts"
    /\ Len(transactions) >= 2
    /\ Kind(transactions[1]) = "DEPOSIT"
    /\ Kind(LastRecord) = "BUY"

(* C25: a caller cannot change the stored history through what             *)
(* get_transaction_history returns: after it has appended to the returned  *)
(* list, removed from it or altered a record of it, the history of the     *)
(* account is as it was.                                                   *)
C25_HistoryNotWritable ==
    (created /\ last.op \in {"caller_append", "caller_pop", "caller_alter"}) =>
        transactions = pre.transactions

(* C26: get_holdings returns a new mapping with the holdings of the        *)
(* account: after a caller has set or deleted an entry of it the account   *)
(* is as it was, and a later get_holdings returns the account's holdings.  *)
C26_HoldingsSnapshot ==
    created =>
        /\ last.op \in {"caller_put", "caller_del"} => Unchanged
        /\ last.op = "get_holdings" =>
              (~returned.alias /\ returned.items = holdings)

\* the caller has deleted the entry of a symbol from the mapping it was
\* returned by an account of accounts.py, which still holds the symbol
C26_Witness ==
    /\ Called("caller_del") /\ impl = "accounts"
    /\ last.symbol \in DOMAIN holdings
    /\ last.symbol \notin DOMAIN returned.items

(* C27: every record of the history carries balance_after, the cash        *)
(* balance right after its transaction: the last record's balance_after is *)
(* the current balance, and each record's balance_after is the previous    *)
(* record's balance_after plus its own cash impact.                        *)
C27_BalanceAfter ==
    created =>
        /\ \A i \in 1 .. Len(transactions) :
              "balance_after" \in DOMAIN transactions[i]
        /\ Len(transactions) > 0 => LastRecord.balance_after = balance
        /\ \A i \in 2 .. Len(transactions) :
              transactions[i].balance_after =
                  transactions[i - 1].balance_after + CashImpact(transactions[i])

(* C28: the signed cash impact of a record is the change its transaction   *)
(* made to the balance: the record of the last successful call carries     *)
(* the difference between the balance after and before it, and in every    *)
(* record the cash impact is > 0 on DEPOSIT and SELL and < 0 on WITHDRAW   *)
(* and BUY.                                                                *)
C28_CashImpactSigned ==
    created =>
        /\ (last.op \in Mutating /\ Ok) =>
              CashImpact(LastRecord) = balance - pre.balance
        /\ \A i \in 1 .. Len(transactions) :
              LET r == transactions[i]
              IN  /\ Kind(r) \in {"DEPOSIT", "SELL"} => CashImpact(r) > 0
                  /\ Kind(r) \in {"WITHDRAW", "BUY"} => CashImpact(r) < 0

\* the history of an account of accounts.py holds a deposit, a purchase and
\* a sale
C28_Witness ==
    /\ created /\ impl = "accounts" /\ Len(transactions) = 3
    /\ {Kind(transactions[i]) : i \in 1 .. 3} = {"DEPOSIT", "BUY", "SELL"}

(* C29: the kind of every record is DEPOSIT, WITHDRAW, BUY or SELL; a BUY  *)
(* or SELL record carries a symbol, a quantity > 0 and a price per share,  *)
(* and a DEPOSIT or WITHDRAW record carries none of the three.             *)
C29_RecordShape ==
    created =>
        \A i \in 1 .. Len(transactions) :
            LET r == transactions[i]
            IN  /\ Kind(r) \in {"DEPOSIT", "WITHDRAW", "BUY", "SELL"}
                /\ Kind(r) \in {"BUY", "SELL"} =>
                      /\ r.symbol # None
                      /\ r.quantity # None
                      /\ r.quantity[1] > 0
                      /\ PricePerShare(r) # None
                /\ Kind(r) \in {"DEPOSIT", "WITHDRAW"} =>
                      /\ r.symbol = None
                      /\ r.quantity = None
                      /\ PricePerShare(r) = None

(* C30: on an account of accounts.py the profit or loss is computed        *)
(* without a division by zero: when initial_deposit_total is 0 the percent *)
(* is 0 and the amount is the portfolio value, and when it is > 0 the      *)
(* percent is (amount / initial_deposit_total) * 100.                      *)
C30_ProfitLossPercent ==
    (created /\ impl = "accounts") =>
        LET pl == accounts_calculate_profit_loss
            percent == pl.profit_loss_percent
        IN  /\ ~pl.raises
            /\ initial_deposit_total = 0 =>
                  /\ percent[1] = 0
                  /\ pl.profit_loss_amount =
                         accounts_calculate_portfolio_value.total_value
            /\ initial_deposit_total > 0 =>
                  percent = <<pl.profit_loss_amount * 100, initial_deposit_total>>

\* a withdrawal has been refused on an account of accounts.py in which
\* nothing was ever deposited
C30_Witness ==
    /\ Called("withdraw") /\ impl = "accounts" /\ ~Ok
    /\ initial_deposit_total = 0
    /\ accounts_calculate_profit_loss.profit_loss_percent[1] = 0

-----------------------------------------------------------------------------
\* what the account's implementation reports as the value of the holdings d
\* and as the profit or loss of the account before the last call
HoldingsValueOf(d) ==
    IF impl = "accounts_working" THEN working_calculate_current_holdings_value(d)
    ELSE IF impl = "embedded" THEN embedded_calculate_current_holdings_value(d)
    ELSE [raises |-> FALSE, value |-> accounts_stock_value(d)]
ProfitLossBefore ==
    pre.balance + HoldingsValueOf(pre.holdings).value - pre.initial_deposit_total

(* C31: on an account constructed with an initial deposit (accounts_working *)
(* and the embedded module), the baseline of the profit or loss is the     *)
(* deposit of the creation only: no deposit, withdraw, buy or sell changes *)
(* initial_deposit, and a successful deposit(d) raises what               *)
(* calculate_profit_loss() returns by d.                                   *)
C31_BaselineIsCreationDeposit ==
    (impl \in {"accounts_working", "embedded"} /\ last.op \in Mutating /\ created) =>
        /\ initial_deposit_total = pre.initial_deposit_total
        /\ (Called("deposit") /\ Ok /\ ~profit_loss.raises) =>
               profit_loss.value = ProfitLossBefore + last.amount

\* created with 1000.00, shares bought, and 750.00 deposited: the profit is
\* the 750.00
C31_Witness ==
    /\ impl = "accounts_working" /\ Called("deposit") /\ Ok
    /\ initial_deposit_total = Money(1000, 0)
    /\ holdings # EmptyDict
    /\ ~profit_loss.raises
    /\ profit_loss.value = Money(750, 0)

-----------------------------------------------------------------------------
(* The reporting methods as calls: get_balance (get_cash_balance in        *)
(* accounts.py), calculate_current_holdings_value (the crew modules only), *)
(* calculate_portfolio_value and calculate_profit_loss, next to            *)
(* get_holdings and get_transaction_history above.  The caller holds the   *)
(* outcome of the call: the value returned, or that the call raised.       *)

Value(of, outcome) ==
    [of |-> of, alias |-> FALSE, items |-> <<outcome>>, writes |-> returned.writes]

\* a reporting method returns outcome.value, or raises the ValueError of a
\* price lookup: nothing of the account is assigned
Reported(op, outcome) ==
    /\ created
    /\ returned' = Value(op, outcome)
    /\ last' = Outcome(Call(op, 0, None, 0),
                       IF outcome.raises THEN "UnknownSymbol" ELSE "ok",
                       IF outcome.raises THEN "ValueError" ELSE "None")
    /\ pre' = Snapshot
    /\ UNCHANGED <<callers, other, impl, created, mock, txcap, account>>

get_balance == Reported("get_balance", [raises |-> FALSE, value |-> balance])

calculate_current_holdings_value ==
    /\ impl # "accounts"
    /\ Reported("calculate_current_holdings_value", current_holdings_value)

calculate_portfolio_value ==
    Reported("calculate_portfolio_value",
             IF impl = "accounts"
             THEN [raises |-> FALSE, value |-> accounts_calculate_portfolio_value]
             ELSE portfolio_value)

\* the report rebases the account: the baseline becomes the cash held
calculate_profit_loss_rebasing ==
    /\ created
    /\ initial_deposit_total' = balance
    /\ returned' = Value("calculate_profit_loss", profit_loss)
    /\ last' = Outcome(Call("calculate_profit_loss", 0, None, 0), "ok", "None")
    /\ pre' = Snapshot
    /\ UNCHANGED <<callers, other, impl, created, mock, txcap, balance, holdings,
                   transactions>>

calculate_profit_loss ==
    Reported("calculate_profit_loss",
             IF impl = "accounts"
             THEN [raises |-> accounts_calculate_profit_loss.raises,
                   value |-> accounts_calculate_profit_loss]
             ELSE profit_loss)

Reads == {"get_balance", "get_holdings", "get_transaction_history",
          "calculate_current_holdings_value", "calculate_portfolio_value",
          "calculate_profit_loss"}

\* an account of any implementation: its operations, the patching of the
\* price lookup, and its reports
NextReads ==
    \/ accounts_deposit(Money(750, 0))
    \/ accounts_withdraw(Money(750, 0))
    \/ \E s \in {AAPL, XYZ} : accounts_buy_shares(s, 1)
    \/ \E s \in {AAPL, XYZ} : accounts_sell_shares(s, 1)
    \/ working_deposit(Money(750, 0))
    \/ working_withdraw(Money(750, 0))
    \/ \E s \in {AAPL, TSLA} : working_buy_shares(s, 1)
    \/ \E s \in {AAPL, TSLA} : working_sell_shares(s, 1)
    \/ embedded_deposit(Money(750, 0))
    \/ embedded_withdraw(Money(750, 0))
    \/ \E s \in {AAPL, TSLA} : embedded_buy_shares(s, 1)
    \/ \E s \in {AAPL, TSLA} : embedded_sell_shares(s, 1)
    \/ \E m \in Mocks : patch_get_share_price(m)
    \/ get_balance
    \/ get_holdings
    \/ get_transaction_history
    \/ calculate_current_holdings_value
    \/ calculate_portfolio_value
    \/ calculate_profit_loss

SpecReads == Init /\ [][NextReads]_vars

(* C32: the reporting methods have no side effect.  A call of get_balance, *)
(* get_holdings, get_transaction_history,                                  *)
(* calculate_current_holdings_value, calculate_portfolio_value or          *)
(* calculate_profit_loss, in any state, leaves balance, holdings,          *)
(* initial_deposit_total and the history as they were, and a second call   *)
(* of the same method right after it, the prices being the same, has the   *)
(* same outcome as the first.                                              *)
C32_ReadsHaveNoEffect ==
    [][last'.op \in Reads =>
          /\ account' = account
          /\ (last.op = last'.op /\ mock' = mock) => returned' = returned]_vars

\* a report made of an account that holds cash, shares and a history
C32_Witness ==
    /\ created /\ last.op = "calculate_profit_loss" /\ Ok
    /\ returned.of = "calculate_profit_loss"
    /\ balance > 0 /\ holdings # EmptyDict /\ Len(transactions) = 2
    /\ Unchanged

-----------------------------------------------------------------------------
(* The messages of the exceptions of insufficient funds and shares: each   *)
(* f-string as the record of the values it formats ({x:.2f} writes a       *)
(* quarter-dollar amount exactly), named by what the value is.             *)

\* accounts.py, line 98
accounts_withdraw_message(amount, bal) == [requested |-> amount, balance |-> bal]
\* accounts.py, lines 113-115
accounts_buy_message(symbol, quantity, price, cost, bal) ==
    [quantity |-> quantity, symbol |-> symbol, price |-> price, cost |-> cost,
     balance |-> bal]
\* accounts.py, lines 128-130
accounts_sell_message(symbol, quantity, current_holding) ==
    [quantity |-> quantity, symbol |-> symbol, held |-> current_holding]

\* accounts_working.py, line 53
working_withdraw_message(amount, bal) == [balance |-> bal]
\* accounts_working.py, line 75
working_buy_message(symbol, quantity, price, cost, bal) ==
    [cost |-> cost, balance |-> bal]
\* accounts_working.py, line 98
working_sell_message(symbol, quantity, available) ==
    [symbol |-> symbol, held |-> available]

\* the embedded module, line 151
embedded_withdraw_message(amount, bal) == [requested |-> amount, balance |-> bal]
\* the embedded module, line 174
embedded_buy_message(symbol, quantity, price, total_cost, bal) ==
    [quantity |-> quantity, symbol |-> symbol, cost |-> total_cost, balance |-> bal]
\* the embedded module, line 196
embedded_sell_message(symbol, quantity, current_holding) ==
    [symbol |-> symbol, quantity |-> quantity, held |-> current_holding]

\* the message of the exception the last call raised, when it was one of
\* insufficient funds or shares
Message ==
    LET symbol == HoldingKey(last.symbol)
        price == get_share_price(symbol).price
        cost == price * last.quantity
        held == Get(pre.holdings, symbol, 0)
    IN  IF last.op = "withdraw"
        THEN IF impl = "accounts"
             THEN accounts_withdraw_message(last.amount, pre.balance)
             ELSE IF impl = "accounts_working"
             THEN working_withdraw_message(last.amount, pre.balance)
             ELSE embedded_withdraw_message(last.amount, pre.balance)
        ELSE IF last.op = "buy"
        THEN IF impl = "accounts"
             THEN accounts_buy_message(symbol, last.quantity, price, cost, pre.balance)
             ELSE IF impl = "accounts_working"
             THEN working_buy_message(symbol, last.quantity, price, cost, pre.balance)
             ELSE embedded_buy_message(symbol, last.quantity, price, cost, pre.balance)
        ELSE IF impl = "accounts"
             THEN accounts_sell_message(symbol, last.quantity, held)
             ELSE IF impl = "accounts_working"
             THEN working_sell_message(symbol, last.quantity, held)
             ELSE embedded_sell_message(symbol, last.quantity, held)

\* the message conveys the value v as field
Conveys(field, v) == field \in DOMAIN Message /\ Message[field] = v

(* C33: a failure carries its context.  The exception of insufficient      *)
(* funds raised by withdraw conveys the amount requested and the balance,  *)
(* the one raised by buy conveys the cost and the balance, and the         *)
(* exception of insufficient shares conveys the symbol, the quantity       *)
(* requested and the quantity held.                                        *)
C33_FailureContext ==
    /\ (Called("withdraw") /\ Failed("InsufficientFunds")) =>
           /\ Conveys("requested", last.amount)
           /\ Conveys("balance", balance)
    /\ (Called("buy") /\ Failed("InsufficientFunds")) =>
           /\ Conveys("cost", get_share_price(HoldingKey(last.symbol)).price * last.quantity)
           /\ Conveys("balance", balance)
    /\ (Called("sell") /\ Failed("InsufficientShares")) =>
           /\ Conveys("symbol", HoldingKey(last.symbol))
           /\ Conveys("quantity", last.quantity)
           /\ Conveys("held", Get(holdings, HoldingKey(last.symbol), 0))

-----------------------------------------------------------------------------
(* Calls of accounts.py made by several threads.  app.py keeps one Account *)
(* in the module global ACCOUNT (line 137) and its handlers (206-246) call *)
(* it from the threads the web framework runs them in; Account takes no    *)
(* lock.  A call is its checks, then the statement self.balance += or -=   *)
(* (which the interpreter runs as a load of the attribute, an operation    *)
(* and a store), then the statements that follow it.  Another thread may   *)
(* run between any two of these steps.                                     *)

Running == {t \in Callers : callers[t].at # "idle"}

\* thread t has passed the checks of op and is about to change the balance
\* by delta
Validated(t, call, price, delta) ==
    /\ callers' = [callers EXCEPT ![t] =
           [at |-> "validated", op |-> call.op, amount |-> call.amount,
            symbol |-> call.symbol, quantity |-> call.quantity, price |-> price,
            delta |-> delta, loaded |-> 0]]
    /\ UNCHANGED <<other, impl, created, mock, txcap, returned, account, last, pre>>

\* a thread calls: there is an account, the thread is in no call, and the
\* history has room for the record of the call
Enter(t) ==
    /\ created /\ impl = "accounts"
    /\ callers[t].at = "idle"
    /\ Len(transactions) + Cardinality(Running) < txcap

\* Account.deposit, lines 87-88
begin_deposit(t, amount) ==
    LET call == Call("deposit", amount, None, 0)
    IN  /\ Enter(t)
        /\ IF accounts_deposit_invalid(amount)
           THEN Raise(call, "InvalidAmount", "ValueError")
           ELSE Validated(t, call, 0, amount)

\* Account.withdraw, lines 95-98
begin_withdraw(t, amount) ==
    LET call == Call("withdraw", amount, None, 0)
    IN  /\ Enter(t)
        /\ IF accounts_withdraw_invalid(amount)
           THEN Raise(call, "InvalidAmount", "ValueError")
           ELSE IF accounts_withdraw_insufficient(amount)
           THEN Raise(call, "InsufficientFunds", "InsufficientFundsError")
           ELSE Validated(t, call, 0, -amount)

\* Account.buy_shares, lines 106-115
begin_buy_shares(t, symbol, quantity) ==
    LET call == Call("buy", 0, symbol, quantity)
        price == get_share_price(symbol).price
        cost == price * quantity
    IN  /\ Enter(t)
        /\ IF accounts_quantity_invalid(quantity)
           THEN Raise(call, "InvalidQuantity", "ValueError")
           ELSE IF accounts_buy_insufficient(cost)
           THEN Raise(call, "InsufficientFunds", "InsufficientFundsError")
           ELSE Validated(t, call, price, -cost)

\* self.balance += / -= ..., lines 90, 100 and 117: the attribute is loaded
load_balance(t) ==
    /\ callers[t].at = "validated"
    /\ callers' = [callers EXCEPT ![t].at = "loaded", ![t].loaded = balance]
    /\ UNCHANGED <<other, impl, created, mock, txcap, returned, account, last, pre>>

\* self.balance += / -= ..., lines 90, 100 and 117: the result is stored
store_balance(t) ==
    /\ callers[t].at = "loaded"
    /\ balance' = callers[t].loaded + callers[t].delta
    /\ callers' = [callers EXCEPT ![t].at = "stored"]
    /\ UNCHANGED <<other, impl, created, mock, txcap, returned, holdings,
                   transactions,
                   initial_deposit_total, last, pre>>

\* the statements after the balance is stored (lines 91-92, 101, 118-119),
\* and the return
complete(t) ==
    LET c == callers[t]
        call == Call(c.op, c.amount, c.symbol, c.quantity)
    IN  /\ c.at = "stored"
        /\ initial_deposit_total' = IF c.op = "deposit"
                                    THEN initial_deposit_total + c.amount
                                    ELSE initial_deposit_total
        /\ holdings' = IF c.op = "buy" THEN accounts_buy_holdings(c.symbol, c.quantity)
                       ELSE holdings
        /\ transactions' =
               IF c.op = "deposit"
               THEN accounts_record_transaction("DEPOSIT", c.amount, None, None, None)
               ELSE IF c.op = "withdraw"
               THEN accounts_record_transaction("WITHDRAW", -c.amount, None, None, None)
               ELSE accounts_record_transaction("BUY", c.delta, Some(c.symbol),
                                                Some(c.quantity), Some(c.price))
        /\ callers' = [callers EXCEPT ![t] = Idle]
        /\ last' = Outcome(call, "ok", "None")
        /\ pre' = Snapshot
        /\ UNCHANGED <<other, impl, created, mock, txcap, returned, balance>>

InitConcurrent ==
    /\ mock = "none"
    /\ txcap = MaxTx
    /\ returned = NoReturn
    /\ callers = NoCalls
    /\ other = NoOther
    /\ accounts_init

NextConcurrent ==
    \E t \in Callers :
        \/ begin_deposit(t, Money(750, 0))
        \/ \E a \in {0, Money(750, 0)} : begin_withdraw(t, a)
        \/ \E q \in {0, 1} : begin_buy_shares(t, AAPL, q)
        \/ load_balance(t)
        \/ store_balance(t)
        \/ complete(t)

SpecConcurrent == InitConcurrent /\ [][NextConcurrent]_vars

\* no thread is in a call
Quiescent == \A t \in Callers : callers[t] = Idle

\* the sum of the amounts of the records of the history
Recorded == Sum([i \in 1 .. Len(transactions) |-> CashImpact(transactions[i])],
                1 .. Len(transactions))

(* C34: calls that several threads make on one account are serialised.     *)
(* No two calls pass the funds check against the same balance and then     *)
(* both subtract, and no call's update of the balance is overwritten by    *)
(* another's: the balance is never negative and, when every call has       *)
(* returned, it is the sum of the amounts recorded, as after the same      *)
(* calls made one after the other.                                         *)
C34_CallsSerialised ==
    /\ balance >= 0
    /\ Quiescent => balance = Recorded

-----------------------------------------------------------------------------
(* Two instances of the class.  __init__ assigns to self a new dict and a  *)
(* new list (accounts.py 66-71, accounts_working.py 26-31, the embedded    *)
(* module 98-113), and the class has no attribute of its own: no attribute *)
(* of one instance is the object another instance holds.  The caller makes *)
(* two instances with the same arguments and calls now one, now the other. *)

\* the attributes were the class's: every instance holds the same dict and
\* the same list
init_shared_class_attributes == {"holdings", "transactions"}

\* the attributes of an instance that are objects another instance holds
init_shared == {}

\* a second instance is made, by the constructor call that made the first
second_init ==
    other = [made |-> created, account |-> Snapshot, shared |-> init_shared]

\* the caller turns to the other instance: its fields are what they were
\* when it was left, but for an attribute that is the object the instance
\* called until now holds, which is what that instance made of it
select_other ==
    /\ created /\ other.made
    /\ other' = [other EXCEPT !.account = Snapshot]
    /\ balance' = other.account.balance
    /\ initial_deposit_total' = other.account.initial_deposit_total
    /\ holdings' = IF "holdings" \in other.shared THEN holdings
                   ELSE other.account.holdings
    /\ transactions' = IF "transactions" \in other.shared THEN transactions
                       ELSE other.account.transactions
    /\ last' = Outcome(Call("select_other", 0, None, 0), "ok", "None")
    /\ pre' = Snapshot
    /\ UNCHANGED <<callers, impl, created, mock, txcap, returned>>

InitInstances ==
    /\ mock = "none"
    /\ txcap = MaxTx
    /\ returned = NoReturn
    /\ callers = NoCalls
    /\ \/ accounts_init
       \/ working_init(Money(1000, 0))
       \/ embedded_init(Money(1000, 0))
    /\ second_init

NextInstances ==
    \/ accounts_deposit(Money(750, 0))
    \/ accounts_withdraw(Money(750, 0))
    \/ accounts_buy_shares(AAPL, 1)
    \/ accounts_sell_shares(AAPL, MaxQty)
    \/ working_deposit(Money(750, 0))
    \/ working_withdraw(Money(750, 0))
    \/ working_buy_shares(AAPL, 1)
    \/ working_sell_shares(AAPL, MaxQty)
    \/ embedded_deposit(Money(750, 0))
    \/ embedded_withdraw(Money(750, 0))
    \/ embedded_buy_shares(AAPL, 1)
    \/ embedded_sell_shares(AAPL, MaxQty)
    \/ select_other

SpecInstances == InitInstances /\ [][NextInstances]_vars

(* C35: instances are independent.  Whatever operations, failing or not,   *)
(* were made on one account, another account is found as it was left: its *)
(* balance, holdings, baseline and history are those it had when the       *)
(* caller last turned away from it.                                        *)
C35_InstancesIndependent ==
    [][last'.op = "select_other" => Snapshot' = other.account]_vars

\* the caller is back at an account with one record more than at its
\* creation, from one that has bought a share and failed to sell two
C35_Witness ==
    /\ created /\ last.op = "select_other"
    /\ Len(transactions) = Len(other.account.transactions) - 1
    /\ holdings = EmptyDict
    /\ other.account.holdings # EmptyDict
    /\ balance > other.account.balance

(* C36: buy makes its checks in a fixed order.  A quantity <= 0 fails with *)
(* InvalidQuantity, whatever the symbol and the balance; otherwise a       *)
(* symbol the oracle does not recognise fails with UnknownSymbol, whatever *)
(* the balance; the funds are checked only after both, so a buy that fails *)
(* with InsufficientFunds has a positive quantity and a recognised symbol. *)
C36_BuyCheckOrder ==
    Called("buy") =>
        /\ last.quantity <= 0 => Failed("InvalidQuantity")
        /\ (last.quantity > 0 /\ ~Recognised(last.symbol)) => Failed("UnknownSymbol")
        /\ Failed("InsufficientFunds") =>
               (last.quantity > 0 /\ Recognised(last.symbol))

\* the account was constructed with balance 0 and an empty history: always
\* in accounts.py; in accounts_working.py when initial_deposit, which
\* nothing assigns after construction, is 0; in the embedded module, whose
\* constructor starts at 0.0 and deposits what it is given
StartedEmpty ==
    impl \in {"accounts", "embedded"} \/ initial_deposit_total = 0

(* C37: the ledger reconciles.  On an account that started with balance 0  *)
(* and an empty history, whatever calls were made, the cash balance is the *)
(* sum of the signed amounts (cash_impact) of the records of the history.  *)
C37_LedgerReconciles ==
    (created /\ StartedEmpty) => balance = Recorded

\* an account of accounts_working.py created with 0.00, after a deposit, a
\* buy and a sell
C37_Witness ==
    /\ created /\ impl = "accounts_working" /\ initial_deposit_total = 0
    /\ Len(transactions) = 3
    /\ {Kind(transactions[i]) : i \in 1 .. 3} = {"DEPOSIT", "BUY", "SELL"}
    /\ balance = Recorded

\* the symbols a holding or a record can be of
AllSymbols == Symbols \cup {upper(s) : s \in Symbols}

\* the records of the history of the given kind for symbol s, and the
\* total of their quantities
TradesOf(kind, s) ==
    {i \in 1 .. Len(transactions) :
        Kind(transactions[i]) = kind /\ transactions[i].symbol = Some(s)}
Traded(kind, s) ==
    Sum([i \in TradesOf(kind, s) |-> transactions[i].quantity[1]], TradesOf(kind, s))

(* C38: shares are conserved.  In every reachable state and for every      *)
(* symbol, the quantity held (0 when the symbol is not a key of holdings)  *)
(* is the total quantity of the BUY records of the symbol minus the total  *)
(* quantity of its SELL records.                                           *)
C38_SharesConserved ==
    created =>
        \A s \in AllSymbols :
            Get(holdings, s, 0) = Traded("BUY", s) - Traded("SELL", s)

\* two shares bought and one of them sold
C38_Witness ==
    /\ created /\ Called("sell") /\ Ok
    /\ Traded("BUY", AAPL) = 2 /\ Traded("SELL", AAPL) = 1
    /\ Len(transactions) = 3
    /\ holdings[AAPL] = 1

\* the WITHDRAW records of the history, and the total amount withdrawn
Withdrawals == {i \in 1 .. Len(transactions) : Kind(transactions[i]) = "WITHDRAW"}
Withdrawn == Sum([i \in Withdrawals |-> -CashImpact(transactions[i])], Withdrawals)

(* C39: on an account of accounts.py, whose prices never change, a buy and *)
(* a sell leave the portfolio value as it was; so in every reachable state *)
(* the portfolio value is the total deposited minus the total withdrawn,   *)
(* and the profit or loss, measured against the running sum of the         *)
(* deposits, is minus the total withdrawn, never positive.                 *)
C39_ValueIsNetDeposits ==
    (created /\ impl = "accounts") =>
        /\ (last.op \in {"buy", "sell"} /\ Ok) =>
               accounts_calculate_portfolio_value.total_value =
                   pre.balance + accounts_stock_value(pre.holdings)
        /\ accounts_calculate_portfolio_value.total_value = Deposited - Withdrawn
        /\ accounts_calculate_profit_loss.profit_loss_amount = -Withdrawn
        /\ accounts_calculate_profit_loss.profit_loss_amount <= 0

\* the worked scenario of the module header, at its end: shares are held,
\* 500.00 has been withdrawn and a loss of 500.00 is reported
C39_Witness ==
    /\ created /\ impl = "accounts" /\ Called("withdraw") /\ Ok
    /\ Len(transactions) = Len(Scenario)
    /\ \E i \in 1 .. Len(transactions) : Kind(transactions[i]) = "SELL"
    /\ holdings # EmptyDict
    /\ Withdrawn = Money(500, 0)
    /\ accounts_calculate_profit_loss.profit_loss_amount = -Money(500, 0)

(* C40: while get_share_price is the module's own function, with its       *)
(* fixed table, every symbol held in a state reached by deposits,          *)
(* withdrawals, buys and sells is one it prices: the valuation of the      *)
(* holdings skips none of them, and calculate_current_holdings_value,      *)
(* calculate_portfolio_value and calculate_profit_loss do not raise.       *)
C40_HoldingsPriceable ==
    (created /\ mock = "none") =>
        /\ \A k \in DOMAIN holdings : ~get_share_price(k).raises
        /\ ~current_holdings_value.raises
        /\ current_holdings_value.value =
               Sum([k \in DOMAIN holdings |-> get_share_price(k).price * holdings[k]],
                   DOMAIN holdings)
        /\ ~portfolio_value.raises
        /\ ~profit_loss.raises

\* an account of accounts_working.py holds shares of two symbols, worth
\* 1000.00, and a buy of an unknown symbol has just been refused
C40_Witness ==
    /\ created /\ impl = "accounts_working" /\ mock = "none"
    /\ Called("buy") /\ Failed("UnknownSymbol")
    /\ DOMAIN holdings = {AAPL, TSLA}
    /\ current_holdings_value.value = Money(1000, 0)

====
